---- MODULE Spec2Model ----
(***************************************************************************)
(* The agent execution loop of the travel assistant (src/server.py): the   *)
(* LangGraph workflow agent -> should_continue -> tools -> agent, the      *)
(* retrying wrapper around the model call, and the manual tool node.       *)
(*                                                                         *)
(* It covers both applications of the repository: server.py (manual tool   *)
(* node, event_generator) and main.py (prebuilt ToolNode, request          *)
(* validation, used_tools, stream_llm_response).                           *)
(*                                                                         *)
(* The specifications share the variables:                                 *)
(*   Spec        one conversation run by the compiled graph, with the      *)
(*               retry configuration server.py gives the decorator;        *)
(*   SpecRetry   one wrapped call under every sampled retry configuration  *)
(*               that config.RetryConfig accepts;                          *)
(*   SpecRouter  should_continue applied to arbitrary bounded histories;   *)
(*   SpecEndpoint the /travel-assistant endpoint of main.py from the       *)
(*               request on, with short conversations.                     *)
(***************************************************************************)
EXTENDS Integers, Sequences, FiniteSets, TLC

VARIABLES
    messages,           \* AgentState["messages"]: the history
    node,               \* the node the graph runs next: "agent", "tools", END
    steps,              \* the nodes that have completed, in order
    rpc,                \* position inside the retry wrapper
    attempt,            \* the wrapper's loop variable
    delay,              \* the wrapper's current backoff delay
    sleeps,             \* the backoff sleeps of the current wrapper call
    calls,              \* model calls made by the current wrapper call
    failures,           \* failed model calls of the current wrapper call
    last_error,         \* the exception of the latest failed model call
    result,             \* what the wrapper returned last
    raised,             \* the exception that left the graph run, if any
    max_retries,        \* the decorator's parameters
    initial_delay,
    exponential_base,
    max_delay,
    app,                \* the application serving the request
    query,              \* TravelRequest.query
    prompt,             \* TravelRequest.prompt
    stream_mode,        \* TravelRequest.stream
    pending,            \* the event astream yielded, not yet projected
    stream,             \* the records the stream generator has yielded
    step_number,        \* event_generator's counter
    http,               \* the response the endpoint returned, if any
    invoked,            \* SpecTools: the tool invocation under test
    returned,           \* SpecTools: what its invocations returned
    convs               \* SpecTasks: the conversations in flight

vars == <<messages, node, steps, rpc, attempt, delay, sleeps, calls, failures,
          last_error, result, raised, max_retries, initial_delay,
          exponential_base, max_delay, app, query, prompt, stream_mode,
          pending, stream, step_number, http, invoked, returned, convs>>

retry_vars == <<max_retries, initial_delay, exponential_base, max_delay>>

\* the request, fixed once it is received
request_vars == <<app, query, prompt, stream_mode>>

\* the variables only SpecTools and SpecTasks use
other_vars == <<invoked, returned, convs>>

NoOther == invoked = <<>> /\ returned = <<>> /\ convs = <<>>

\* what the caller sees
output_vars == <<stream, step_number, http>>

\* the execution loop and the retry wrapper
loop_vars == <<messages, node, steps, rpc, attempt, delay, sleeps, calls,
               failures, last_error, result, raised, retry_vars>>

----------------------------------------------------------------------------
(* Bounds of the model *)

\* tool call requests one conversation may hold in all
MaxToolCalls == 3

\* length of the histories the router is probed with
MaxRouterHistory == 2

----------------------------------------------------------------------------
(* Program constants *)

\* @retry_with_exponential_backoff_async(max_retries=3, initial_delay=1.0)
ServerMaxRetries == 3
ServerInitialDelay == 1
\* the decorator's defaults
DefaultExponentialBase == 2
DefaultMaxDelay == 60
\* RetryConfig.max_retries: Field(ge=0, le=10)
RetryMaxRetriesGe == 0
RetryMaxRetriesLe == 10

END == "__end__"
None == "None"

\* the query of the request
UserQuery == "Plan a 3-day trip to Tokyo from Singapore"

\* exceptions a model call raises
Errors == {"ResourceExhausted", "TimeoutError"}

\* a message content is a string or a list of parts, each a dict with a
\* "text" entry or a plain string
Str(s) == [kind |-> "str", text |-> s, parts |-> <<>>]
ListOf(ps) == [kind |-> "list", text |-> "", parts |-> ps]
DictPart(t) == [dict |-> TRUE, text |-> t]
StrPart(t) == [dict |-> FALSE, text |-> t]

\* string contents of an agent message
Contents == {Str(""), Str("Travel plan")}

\* a list content of an agent message
ListContent == ListOf(<<DictPart("Travel"), StrPart("plan")>>)

\* the text that comes with the tool call requests of an agent message
RequestContent == Str("Let me look that up")

\* bool(content)
Truthy(c) == IF c.kind = "list" THEN c.parts # <<>> ELSE c.text # ""

----------------------------------------------------------------------------
(* Messages *)

HumanMessage(c) ==
    [type |-> "human", content |-> Str(c), tool_calls |-> <<>>,
     tool_call_id |-> 0, name |-> None]

AIMessage(c, tcs) ==
    [type |-> "ai", content |-> c, tool_calls |-> tcs,
     tool_call_id |-> 0, name |-> None]

ToolMessage(c, id, n) ==
    [type |-> "tool", content |-> Str(c), tool_calls |-> <<>>,
     tool_call_id |-> id, name |-> n]

\* hasattr(message, "tool_calls"): only agent messages carry the attribute
HasToolCallsAttr(m) == m.type = "ai"

Last(s) == s[Len(s)]

Min(a, b) == IF a <= b THEN a ELSE b

SeqsUpTo(S, n) == UNION {[1..k -> S] : k \in 0..n}

----------------------------------------------------------------------------
(* Tools *)

\* tools = [search_flights, get_weather, find_attractions]
tools == <<"search_flights", "get_weather", "find_attractions">>

ToolNames == {tools[i] : i \in 1..Len(tools)}

\* the parameters without a default in each tool's signature
RequiredParams(n) ==
    CASE n = "search_flights" -> {"origin", "destination"}
      [] n = "get_weather" -> {"location"}
      [] n = "find_attractions" -> {"location"}
      [] OTHER -> {}

\* json.dumps(flights, indent=2)
search_flights ==
    "{\n  \"flights\": [\n    {\n      \"airline\": \"Singapore Airli"
    \o "nes\",\n      \"price_usd\": 450,\n      \"duration\": \"6h 30m\""
    \o "\n    },\n    {\n      \"airline\": \"ANA\",\n      \"price_usd\":"
    \o " 420,\n      \"duration\": \"6h 30m\"\n    },\n    {\n      \"air"
    \o "line\": \"JAL\",\n      \"price_usd\": 480,\n      \"duration\": "
    \o "\"6h 30m\"\n    }\n  ]\n}"

\* json.dumps(weather, indent=2), for the location Tokyo
get_weather ==
    "{\n  \"location\": \"Tokyo\",\n  \"forecast\": [\n    {\n      \"da"
    \o "y\": \"Day 1\",\n      \"condition\": \"Sunny\",\n      \"high_c\":"
    \o " 22,\n      \"low_c\": 15\n    },\n    {\n      \"day\": \"Day 2\""
    \o ",\n      \"condition\": \"Partly Cloudy\",\n      \"high_c\": 20"
    \o ",\n      \"low_c\": 14\n    },\n    {\n      \"day\": \"Day 3\",\n "
    \o "     \"condition\": \"Clear\",\n      \"high_c\": 23,\n      \"lo"
    \o "w_c\": 16\n    }\n  ]\n}"

\* json.dumps(attractions, indent=2)
find_attractions ==
    "{\n  \"attractions\": [\n    {\n      \"name\": \"Senso-ji Templ"
    \o "e\",\n      \"type\": \"Cultural\",\n      \"rating\": 4.5\n    },"
    \o "\n    {\n      \"name\": \"Tokyo Tower\",\n      \"type\": \"Landm"
    \o "ark\",\n      \"rating\": 4.3\n    },\n    {\n      \"name\": \"Me"
    \o "iji Shrine\",\n      \"type\": \"Cultural\",\n      \"rating\": 4"
    \o ".6\n    },\n    {\n      \"name\": \"Shibuya Crossing\",\n      "
    \o "\"type\": \"Entertainment\",\n      \"rating\": 4.4\n    },\n    "
    \o "{\n      \"name\": \"Ueno Park\",\n      \"type\": \"Nature\",\n   "
    \o "   \"rating\": 4.5\n    }\n  ]\n}"

ValidationError == "ValidationError"

\* t.invoke(tool_args): the arguments are validated against the signature
\* before the body runs; the bodies return json.dumps of fixed data
ToolInvoke(n, args) ==
    IF ~(RequiredParams(n) \subseteq args)
    THEN [raised |-> ValidationError, value |-> None]
    ELSE [raised |-> None,
          value |-> CASE n = "search_flights" -> search_flights
                      [] n = "get_weather" -> get_weather
                      [] n = "find_attractions" -> find_attractions]

\* the shapes of tool call request the model is taken to issue: every
\* registered tool with its required arguments, a tool that is not
\* registered, and a registered tool without its required argument
CallShapes ==
    { [name |-> "search_flights", args |-> {"origin", "destination"}],
      [name |-> "get_weather", args |-> {"location"}],
      [name |-> "find_attractions", args |-> {"location"}],
      [name |-> "book_hotel", args |-> {"location"}],
      [name |-> "get_weather", args |-> {}] }

----------------------------------------------------------------------------
(* The model behind llm_with_tools.ainvoke *)

RECURSIVE ToolCallCount(_)
ToolCallCount(msgs) ==
    IF msgs = <<>> THEN 0
    ELSE Len(Head(msgs).tool_calls) + ToolCallCount(Tail(msgs))

\* the model gives every tool call request an identifier of its own
WithIds(shapes, used) ==
    [j \in 1..Len(shapes) |->
        [name |-> shapes[j].name, args |-> shapes[j].args, id |-> used + j]]

\* the agent messages a successful model call may return on history msgs
Responses(msgs) ==
    LET used == ToolCallCount(msgs) IN
    { AIMessage(c, <<>>) : c \in Contents }
    \cup { AIMessage(RequestContent, WithIds(shapes, used)) :
             shapes \in SeqsUpTo(CallShapes, MaxToolCalls - used) \ {<<>>} }

\* the same without tool call requests
FinalResponses(msgs) == { AIMessage(c, <<>>) : c \in Contents }

\* the answers whose content is a list of parts
ListResponses(msgs) == { AIMessage(ListContent, <<>>) }

----------------------------------------------------------------------------
(* The graph: state reducer, router, tool node *)

\* mutant: the state key has no reducer and the update overwrites it
add_messages_overwrite(left, right) == right

\* mutant: the update is put in front of the history
add_messages_prepend(left, right) == right \o left

\* messages: Annotated[Sequence[BaseMessage], add_messages]
add_messages(left, right) == left \o right

\* mutant: the router looks for tool call requests in the whole history
should_continue_any_message(msgs) ==
    IF \E i \in 1..Len(msgs) :
          HasToolCallsAttr(msgs[i]) /\ msgs[i].tool_calls # <<>>
    THEN "tools"
    ELSE END

\* mutant: the router tests the attribute only, not whether it holds requests
should_continue_hasattr_only(msgs) ==
    IF HasToolCallsAttr(Last(msgs)) THEN "tools" ELSE END

\* should_continue(state)
should_continue(msgs) ==
    LET last_message == Last(msgs) IN
    IF HasToolCallsAttr(last_message) /\ last_message.tool_calls # <<>>
    THEN "tools"
    ELSE END

\* mutant: the loop looks at the first registered tool only
LookupAndInvokeFirstOnly(tool_name, tool_args) ==
    IF tools[1] = tool_name
    THEN ToolInvoke(tool_name, tool_args)
    ELSE [raised |-> None, value |-> None]

\* tool_result = None; for t in tools: if t.name == tool_name: ... break
LookupAndInvoke(tool_name, tool_args) ==
    IF \E i \in 1..Len(tools) : tools[i] = tool_name
    THEN ToolInvoke(tool_name, tool_args)
    ELSE [raised |-> None, value |-> None]

\* content=tool_result if tool_result else "Tool not found"
ResultContent(tool_result) ==
    IF tool_result # None /\ tool_result # ""
    THEN tool_result
    ELSE "Tool not found"

\* the body of the for loop of tool_node over the requests still to run
RECURSIVE ToolLoop(_, _)
ToolLoop(tool_calls, results) ==
    IF tool_calls = <<>>
    THEN [raised |-> None, messages |-> results]
    ELSE LET tool_call == Head(tool_calls)
             r == LookupAndInvoke(tool_call.name, tool_call.args)
         IN  IF r.raised # None
             THEN [raised |-> r.raised, messages |-> <<>>]
             ELSE ToolLoop(Tail(tool_calls),
                           Append(results,
                                  ToolMessage(ResultContent(r.value),
                                              tool_call.id, tool_call.name)))

\* mutant: the results are collected in the reverse order of the requests
tool_node_reversed(msgs) ==
    LET out == ToolLoop(Last(msgs).tool_calls, <<>>)
        n == Len(out.messages)
    IN  [raised |-> out.raised,
         messages |-> [k \in 1..n |-> out.messages[n + 1 - k]]]

\* mutant: the loop stops after the first request
tool_node_first_only(msgs) ==
    LET out == ToolLoop(Last(msgs).tool_calls, <<>>)
    IN  [raised |-> out.raised,
         messages |-> SubSeq(out.messages, 1, Min(1, Len(out.messages)))]

\* tool_node(state): the update it returns, or the exception that leaves it
tool_node(msgs) == ToolLoop(Last(msgs).tool_calls, <<>>)

\* ToolNode(tools) of main.py answers an unknown tool name and a failed
\* tool invocation with an error message instead of raising
ToolNodeMessage(tool_call) ==
    IF ~(\E i \in 1..Len(tools) : tools[i] = tool_call.name)
    THEN ToolMessage("Error: not a valid tool", tool_call.id, tool_call.name)
    ELSE LET r == ToolInvoke(tool_call.name, tool_call.args) IN
         IF r.raised # None
         THEN ToolMessage("Error: invalid arguments. Please fix your mistakes.",
                          tool_call.id, tool_call.name)
         ELSE ToolMessage(r.value, tool_call.id, tool_call.name)

ToolNode(msgs) ==
    LET tool_calls == Last(msgs).tool_calls IN
    [raised |-> None,
     messages |-> [k \in 1..Len(tool_calls) |-> ToolNodeMessage(tool_calls[k])]]

\* the tools node of the application
ToolsNode(msgs) == IF app = "main" THEN ToolNode(msgs) ELSE tool_node(msgs)

\* workflow.add_edge("tools", "agent"), with its mutant: the edge loops
ToolsEdgeToTools == "tools"
ToolsEdge == "agent"

----------------------------------------------------------------------------
(* The retry wrapper of retry_with_exponential_backoff_async *)

\* mutants: the wrapper gives up one attempt early, or never
IsLastAttemptEarly(a) == a >= max_retries - 2
IsLastAttemptLate(a) == a = max_retries

\* if attempt == max_retries - 1: raise
IsLastAttempt(a) == a = max_retries - 1

\* mutant: the delay grows without the ceiling
NextDelayUncapped(d) == d * exponential_base

\* delay = min(delay * exponential_base, max_delay)
NextDelay(d) == Min(d * exponential_base, max_delay)

\* async for event in app_graph.astream(initial_state): the graph yields
\* {node_name: node_output} after each node; ainvoke yields nothing
GraphEvent(node_name, update) ==
    IF stream_mode THEN <<[node |-> node_name, messages |-> update]>> ELSE <<>>

\* workflow.compile() and ainvoke/astream without a config: the graph runs
\* with the library's default recursion_limit of 25 steps
RecursionLimit == 25

\* whether the graph may run one more node
WithinRecursionLimit == Len(steps) < RecursionLimit

GraphRecursionError == "GraphRecursionError"

\* for attempt in range(max_retries): whether the body runs for value a
InRange(a) == a < max_retries

\* the graph applies the update a node returned and follows the agent's
\* conditional edge
AgentUpdate(update) ==
    /\ messages' = add_messages(messages, update)
    /\ node' = should_continue(messages')
    /\ steps' = Append(steps, "agent")
    /\ pending' = GraphEvent("agent", update)

\* mutant: the delay is kept from one wrapped call to the next
WrapperEnterKeepsDelay ==
    /\ node = "agent"
    /\ rpc \in {"idle", "returned"}
    /\ raised = None
    /\ pending = <<>>
    /\ WithinRecursionLimit
    /\ attempt' = 0
    /\ delay' = IF rpc = "idle" THEN initial_delay ELSE delay
    /\ sleeps' = <<>>
    /\ calls' = 0
    /\ failures' = 0
    /\ last_error' = None
    /\ IF InRange(0)
       THEN /\ rpc' = "call"
            /\ UNCHANGED <<messages, node, steps, result, pending>>
       ELSE /\ rpc' = "returned"
            /\ result' = None
            /\ AgentUpdate(<<>>)
    /\ UNCHANGED <<raised, retry_vars, request_vars, other_vars, output_vars>>

\* the graph calls the agent node: the wrapper starts
WrapperEnter ==
    /\ node = "agent"
    /\ rpc \in {"idle", "returned"}
    /\ raised = None
    /\ pending = <<>>
    /\ WithinRecursionLimit
    /\ attempt' = 0
    /\ delay' = initial_delay
    /\ sleeps' = <<>>
    /\ calls' = 0
    /\ failures' = 0
    /\ last_error' = None
    /\ IF InRange(0)
       THEN /\ rpc' = "call"
            /\ UNCHANGED <<messages, node, steps, result, pending>>
       ELSE \* the loop body never runs and the wrapper returns None
            /\ rpc' = "returned"
            /\ result' = None
            /\ AgentUpdate(<<>>)
    /\ UNCHANGED <<raised, retry_vars, request_vars, other_vars, output_vars>>

\* mutant: the last failure is turned into an agent message, not raised
ModelCallFailsAbsorbed(e) ==
    /\ rpc = "call"
    /\ calls' = calls + 1
    /\ failures' = failures + 1
    /\ last_error' = e
    /\ IF attempt = max_retries - 1
       THEN /\ rpc' = "returned"
            /\ result' = AIMessage(Str(e), <<>>)
            /\ AgentUpdate(<<AIMessage(Str(e), <<>>)>>)
            /\ UNCHANGED <<sleeps, attempt, delay>>
       ELSE /\ rpc' = "sleep"
            /\ sleeps' = Append(sleeps, delay)
            /\ UNCHANGED <<messages, node, steps, attempt, delay, result,
                           pending>>
    /\ UNCHANGED <<raised, retry_vars, request_vars, other_vars, output_vars>>

\* asyncio.CancelledError derives from BaseException, not from Exception
CancelledError == "CancelledError"

IsException(e) == e # CancelledError

\* mutant: the wrapper catches every exception, cancellation included
WrapperCatchesAll(e) == TRUE

\* the wrapper's except Exception as e
WrapperCatches(e) == IsException(e)

\* result = await func(*args, **kwargs) raises e
ModelCallFails(e) ==
    /\ rpc = "call"
    /\ calls' = calls + 1
    /\ failures' = failures + 1
    /\ last_error' = e
    /\ IF IsLastAttempt(attempt)
       THEN /\ rpc' = "raised"
            /\ raised' = e
            /\ UNCHANGED sleeps
       ELSE \* await asyncio.sleep(delay)
            /\ rpc' = "sleep"
            /\ sleeps' = Append(sleeps, delay)
            /\ UNCHANGED raised
    /\ UNCHANGED <<messages, node, steps, attempt, delay, result, retry_vars,
                   request_vars, other_vars, pending, output_vars>>

\* the backoff sleep is over: the delay grows and the loop goes on to its
\* next value, or ends, and then the wrapper returns None
BackoffDone ==
    /\ rpc = "sleep"
    /\ delay' = NextDelay(delay)
    /\ IF InRange(attempt + 1)
       THEN /\ attempt' = attempt + 1
            /\ rpc' = "call"
            /\ UNCHANGED <<messages, node, steps, result, pending>>
       ELSE /\ rpc' = "returned"
            /\ result' = None
            /\ AgentUpdate(<<>>)
            /\ UNCHANGED attempt
    /\ UNCHANGED <<sleeps, calls, failures, last_error, raised, retry_vars,
                   request_vars, other_vars, output_vars>>

\* result = await func(*args, **kwargs) returns {"messages": [response]}
ModelCallSucceeds(response) ==
    /\ rpc = "call"
    /\ calls' = calls + 1
    /\ result' = response
    /\ rpc' = "returned"
    /\ AgentUpdate(<<response>>)
    /\ UNCHANGED <<attempt, delay, sleeps, failures, last_error, raised,
                   retry_vars, request_vars, other_vars, output_vars>>

\* the task is cancelled while the wrapper awaits the model call or the
\* backoff sleep: CancelledError is raised at the await. In the model call it
\* passes the wrapper's except clause unless that catches it; in the sleep
\* it is raised inside the except clause and leaves the wrapper.
Cancel ==
    /\ raised = None
    /\ rpc \in {"call", "sleep"}
    /\ IF rpc = "call" /\ WrapperCatches(CancelledError)
       THEN ModelCallFails(CancelledError)
       ELSE /\ rpc' = IF rpc = "call" THEN "call_cancelled"
                      ELSE "sleep_cancelled"
            /\ raised' = CancelledError
            /\ UNCHANGED <<messages, node, steps, attempt, delay, sleeps,
                           calls, failures, last_error, result, retry_vars,
                           request_vars, other_vars, pending, output_vars>>

\* the graph runs the tools node and follows the edge tools -> agent
ToolStep ==
    /\ node = "tools"
    /\ raised = None
    /\ pending = <<>>
    /\ WithinRecursionLimit
    /\ LET out == ToolsNode(messages) IN
       IF out.raised # None
       THEN /\ raised' = out.raised
            /\ UNCHANGED <<messages, node, steps, pending>>
       ELSE /\ messages' = add_messages(messages, out.messages)
            /\ node' = ToolsEdge
            /\ steps' = Append(steps, "tools")
            /\ pending' = GraphEvent("tools", out.messages)
            /\ UNCHANGED raised
    /\ UNCHANGED <<rpc, attempt, delay, sleeps, calls, failures, last_error,
                   result, retry_vars, request_vars, other_vars, output_vars>>

\* the graph has not reached END within the recursion limit: the run ends
\* with GraphRecursionError
RecursionLimitReached ==
    /\ node \in {"agent", "tools"}
    /\ rpc \in {"idle", "returned"}
    /\ raised = None
    /\ pending = <<>>
    /\ ~WithinRecursionLimit
    /\ raised' = GraphRecursionError
    /\ UNCHANGED <<messages, node, steps, rpc, attempt, delay, sleeps, calls,
                   failures, last_error, result, retry_vars, request_vars,
                   other_vars, pending, output_vars>>

----------------------------------------------------------------------------
(* The stream generators: event_generator and stream_llm_response *)

\* " ".join([item.get("text", "") if isinstance(item, dict) else str(item)
\*           for item in content])
RECURSIVE Join(_)
Join(parts) ==
    IF parts = <<>> THEN ""
    ELSE IF Len(parts) = 1 THEN parts[1].text
    ELSE parts[1].text \o " " \o Join(Tail(parts))

\* the content as server.py sends it: a list is joined, a string is kept
ContentText(c) == IF c.kind = "list" THEN Join(c.parts) ELSE c.text

\* repr() of one part of a list content
PartRepr(part) ==
    IF part.dict THEN "{'text': '" \o part.text \o "'}"
    ELSE "'" \o part.text \o "'"

RECURSIVE PartsRepr(_)
PartsRepr(parts) ==
    IF parts = <<>> THEN ""
    ELSE IF Len(parts) = 1 THEN PartRepr(parts[1])
    ELSE PartRepr(parts[1]) \o ", " \o PartsRepr(Tail(parts))

\* f'{content}': str() of the content, which is repr() for a list
FormatContent(c) ==
    IF c.kind = "list" THEN "[" \o PartsRepr(c.parts) \o "]" ELSE c.text

\* msg.content[:200]
PreviewLength == 200

\* mutant: the whole content is sent
PreviewUntruncated(text) == text

Preview(text) ==
    IF Len(text) > PreviewLength THEN SubSeq(text, 1, PreviewLength) ELSE text

\* one record of a stream. keys are the keys of the JSON object sent, and
\* step, node, tool, args and content their values (content stands for the
\* keys content, result and error). main.py's records carry the one key
\* content: there type and tool name the statement that yields the record
\* and the tool its text names. msg and call are history variables: the
\* position in the history of the message the record is derived from and the
\* position of the request in that message.
Record(type, content, msg) ==
    [type |-> type, step |-> 0, node |-> None, tool |-> None, args |-> {},
     content |-> content, keys |-> {"content"}, msg |-> msg, call |-> 0]

\* mutant: the record carries the counter as it was before the increment
NodeStartBeforeIncrement(step, node_name, msg) ==
    [Record("node_start", "", msg) EXCEPT
        !.step = step - 1, !.node = node_name,
        !.keys = {"step", "node", "type"}]

\* json.dumps({'step': step_number, 'node': node_name, 'type': 'node_start'})
NodeStart(step, node_name, msg) ==
    [Record("node_start", "", msg) EXCEPT
        !.step = step, !.node = node_name, !.keys = {"step", "node", "type"}]

ToolRequest(tc, msg, call) ==
    [Record("tool_request", "", msg) EXCEPT
        !.tool = tc.name, !.args = tc.args, !.call = call,
        !.keys = {"type", "tool", "args"}]

ToolResult(m, content, msg) ==
    [Record("tool_result", content, msg) EXCEPT
        !.tool = m.name, !.keys = {"type", "tool", "result"}]

FinalResponse(content, msg) ==
    [Record("final_response", content, msg) EXCEPT
        !.keys = {"type", "content"}]

\* main.py: {'content': tool_info}, {'content': tool_result}
Calling(tc, msg, call) ==
    [Record("tool_request", "Calling " \o tc.name \o "...\n", msg) EXCEPT
        !.tool = tc.name, !.call = call]

Completed(m, msg) ==
    [Record("tool_result", m.name \o " completed\n", msg) EXCEPT
        !.tool = m.name]

Done == [Record("done", "[DONE]", 0) EXCEPT !.keys = {}]

ErrorRecord(e) == [Record("error", e, 0) EXCEPT !.keys = {"error"}]

\* mutant: the requests of one agent message are sent last first
RequestOrderReversed(n, k) == n + 1 - k

\* for tc in last_message.tool_calls: the k-th record is the k-th request
RequestOrder(n, k) == k

\* the records event_generator yields for one graph event; base is the
\* length of the history before the node ran
ServerEvents(step, ev, base) ==
    LET n == Len(ev.messages) IN
    <<NodeStart(step, ev.node, base + 1)>> \o
    IF ev.node = "agent"
    THEN IF ev.messages = <<>> THEN <<>>
         ELSE LET last_message == Last(ev.messages)
                  tcs == last_message.tool_calls IN
              IF HasToolCallsAttr(last_message) /\ tcs # <<>>
              THEN [k \in 1..Len(tcs) |->
                      ToolRequest(tcs[RequestOrder(Len(tcs), k)], base + n,
                                  RequestOrder(Len(tcs), k))]
              ELSE IF Truthy(last_message.content)
              THEN <<FinalResponse(ContentText(last_message.content),
                                   base + n)>>
              ELSE <<>>
    ELSE [k \in 1..n |->
            ToolResult(ev.messages[k], Preview(ev.messages[k].content.text),
                       base + k)]

\* the texts of stream_llm_response (without their emoji)
Analyzing == "\nAI Agent is analyzing your request...\n"
Preparing == "\n\nAI Agent is preparing your travel plan...\n"
TravelPlanHeader == "\n**Travel Plan:**\n"

\* the records stream_llm_response yields for one graph event
MainEvents(ev, base) ==
    LET n == Len(ev.messages) IN
    IF ev.node = "agent"
    THEN IF ev.messages = <<>> THEN <<>>
         ELSE LET last_message == Last(ev.messages)
                  tcs == last_message.tool_calls IN
              IF HasToolCallsAttr(last_message) /\ tcs # <<>>
              THEN <<Record("status", Analyzing, base + n)>> \o
                   [k \in 1..Len(tcs) |->
                      Calling(tcs[RequestOrder(Len(tcs), k)], base + n,
                              RequestOrder(Len(tcs), k))]
              ELSE IF Truthy(last_message.content)
              THEN <<Record("status", Preparing, base + n),
                     Record("final_response",
                            TravelPlanHeader \o
                            FormatContent(last_message.content), base + n)>>
              ELSE <<>>
    ELSE [k \in 1..n |-> Completed(ev.messages[k], base + k)]

\* whether the generator has yielded its last record
Closed == stream # <<>> /\ Last(stream).type \in {"done", "error"}

\* mutant: the records of a step are put before those of the earlier steps
YieldFirst(records, new) == new \o records

\* yield: the caller receives the records in the order they are yielded
Yield(records, new) == records \o new

\* one iteration of async for event in astream(initial_state)
StreamProject ==
    /\ pending # <<>>
    /\ raised = None
    /\ ~Closed
    /\ LET ev == pending[1]
           base == Len(messages) - Len(ev.messages) IN
       IF app = "server"
       THEN /\ step_number' = step_number + 1
            /\ stream' = Yield(stream, ServerEvents(step_number + 1, ev, base))
       ELSE /\ stream' = Yield(stream, MainEvents(ev, base))
            /\ UNCHANGED step_number
    /\ pending' = <<>>
    /\ UNCHANGED <<loop_vars, request_vars, other_vars, http>>

\* the graph has reached END and the loop over astream is over:
\* yield "data: [DONE]\n\n"
StreamDone ==
    /\ stream_mode
    /\ node = END
    /\ raised = None
    /\ pending = <<>>
    /\ ~Closed
    /\ stream' = Yield(stream, <<Done>>)
    /\ UNCHANGED <<loop_vars, request_vars, other_vars, pending, step_number, http>>

\* mutant: the generator catches every exception, cancellation included
GeneratorCatchesAll(e) == TRUE

\* the generators' except Exception as e
GeneratorCatches(e) == IsException(e)

\* the endpoints' except Exception as e
EndpointCatches(e) == IsException(e)

\* mutant: the generator reports the failure and then ends as on success
StreamErrorThenDone ==
    /\ stream_mode
    /\ raised # None
    /\ GeneratorCatches(raised)
    /\ ~Closed
    /\ stream' = Yield(stream, <<ErrorRecord(raised), Done>>)
    /\ UNCHANGED <<loop_vars, request_vars, other_vars, pending, step_number, http>>

\* except Exception as e: yield f"data: {json.dumps({'error': str(e)})}\n\n"
StreamError ==
    /\ stream_mode
    /\ raised # None
    /\ GeneratorCatches(raised)
    /\ ~Closed
    /\ stream' = Yield(stream, <<ErrorRecord(raised)>>)
    /\ UNCHANGED <<loop_vars, request_vars, other_vars, pending, step_number, http>>

\* the consumer disconnects while the generator is between two graph events
\* (at one of its sleeps or yields): the response task is cancelled and the
\* generator, with the graph run it iterates, is closed at that point
Disconnect ==
    /\ stream_mode
    /\ ~Closed
    /\ raised = None
    /\ rpc \notin {"call", "sleep"}
    /\ raised' = CancelledError
    /\ UNCHANGED <<messages, node, steps, rpc, attempt, delay, sleeps, calls,
                   failures, last_error, result, retry_vars, request_vars,
                   other_vars, pending, output_vars>>

----------------------------------------------------------------------------
(* The endpoint /travel-assistant in buffered mode *)

\* a response of the endpoint: an answer or an error payload
Answer(response, has_used_tools, used_tools) ==
    [status |-> 200, kind |-> "answer", response |-> response,
     has_used_tools |-> has_used_tools, used_tools |-> used_tools,
     error |-> None]

ErrorPayload(status, e) ==
    [status |-> status, kind |-> "error", response |-> "",
     has_used_tools |-> FALSE, used_tools |-> <<>>, error |-> e]

\* mutant: the loop tests hasattr(msg, "name") only, so the name None of the
\* user and agent messages is collected as well
RECURSIVE UsedToolsAnyName(_, _)
UsedToolsAnyName(msgs, used_tools) ==
    IF msgs = <<>> THEN used_tools
    ELSE LET msg == Head(msgs) IN
         IF ~(\E i \in 1..Len(used_tools) : used_tools[i] = msg.name)
         THEN UsedToolsAnyName(Tail(msgs), Append(used_tools, msg.name))
         ELSE UsedToolsAnyName(Tail(msgs), used_tools)

\* if msg.name not in used_tools: used_tools.append(msg.name), over the
\* messages with hasattr(msg, "name") and msg.name
RECURSIVE UsedTools(_, _)
UsedTools(msgs, used_tools) ==
    IF msgs = <<>> THEN used_tools
    ELSE LET msg == Head(msgs) IN
         IF msg.name # None /\ ~(\E i \in 1..Len(used_tools) :
                                    used_tools[i] = msg.name)
         THEN UsedTools(Tail(msgs), Append(used_tools, msg.name))
         ELSE UsedTools(Tail(msgs), used_tools)

\* main.py: TravelResponse(response=final_message.content, used_tools=...);
\* response: str refuses a list, and the except clause turns the refusal
\* into HTTPException(status_code=500, detail=str(e))
MainBuffered(msgs) ==
    LET final_message == Last(msgs) IN
    IF final_message.content.kind = "list"
    THEN ErrorPayload(500, "ValidationError")
    ELSE Answer(final_message.content.text, TRUE, UsedTools(msgs, <<>>))

\* server.py: TravelResponse(response=response_content, status="success"),
\* a list content joined
ServerBuffered(msgs) ==
    Answer(ContentText(Last(msgs).content), FALSE, <<>>)

\* what the endpoint returns once ainvoke has returned the final state
Buffered(msgs) ==
    IF app = "main" THEN MainBuffered(msgs) ELSE ServerBuffered(msgs)

\* result = await ainvoke(initial_state) returned
EndpointReturns ==
    /\ ~stream_mode
    /\ http = <<>>
    /\ node = END
    /\ raised = None
    /\ http' = <<Buffered(messages)>>
    /\ UNCHANGED <<loop_vars, request_vars, other_vars, pending, stream, step_number>>

\* mutant: the failure is swallowed and the caller gets an answer built
\* from the history so far
EndpointFailsPartial ==
    /\ ~stream_mode
    /\ http = <<>>
    /\ raised # None
    /\ EndpointCatches(raised)
    /\ http' = <<Answer(ContentText(Last(messages).content), TRUE,
                        UsedTools(messages, <<>>))>>
    /\ UNCHANGED <<loop_vars, request_vars, other_vars, pending, stream, step_number>>

\* ainvoke raised: main.py raises HTTPException(status_code=500,
\* detail=str(e)), server.py returns JSONResponse(status_code=500,
\* content={"error": str(e), "status": "error"})
EndpointFails ==
    /\ ~stream_mode
    /\ http = <<>>
    /\ raised # None
    /\ EndpointCatches(raised)
    /\ http' = <<ErrorPayload(500, raised)>>
    /\ UNCHANGED <<loop_vars, request_vars, other_vars, pending, stream, step_number>>

----------------------------------------------------------------------------
(* Spec: one request served by server.py or by main.py *)

\* initial_state = {"messages": [system_message]}, entry point "agent"
InitConversation ==
    /\ messages = <<HumanMessage(UserQuery)>>
    /\ node = "agent"
    /\ steps = <<>>
    /\ rpc = "idle"
    /\ attempt = 0
    /\ delay = 0
    /\ sleeps = <<>>
    /\ calls = 0
    /\ failures = 0
    /\ last_error = None
    /\ result = None
    /\ raised = None
    /\ pending = <<>>
    /\ stream = <<>>
    /\ step_number = 0
    /\ http = <<>>
    /\ NoOther

\* the two applications
Apps == {"server", "main"}

Init ==
    /\ InitConversation
    /\ app \in Apps
    /\ query = UserQuery
    /\ prompt = None
    /\ stream_mode \in BOOLEAN
    /\ max_retries = ServerMaxRetries
    /\ initial_delay = ServerInitialDelay
    /\ exponential_base = DefaultExponentialBase
    /\ max_delay = DefaultMaxDelay

Next ==
    \/ WrapperEnter
    \/ \E e \in Errors : ModelCallFails(e)
    \/ BackoffDone
    \/ \E response \in Responses(messages) \cup ListResponses(messages) :
          ModelCallSucceeds(response)
    \/ ToolStep
    \/ StreamProject
    \/ StreamDone
    \/ StreamError
    \/ EndpointReturns
    \/ EndpointFails

Spec == Init /\ [][Next]_vars

\* the event loop keeps running whatever can run: a pending model call
\* returns or raises, a sleep ends, the graph and the generator go on
SpecLive == Spec /\ WF_vars(Next)

\* a request with stream=true: the handler returns the generator and the
\* buffered branch of the endpoint never runs
InitStreamed == Init /\ stream_mode

NextStreamed ==
    \/ WrapperEnter
    \/ \E e \in Errors : ModelCallFails(e)
    \/ BackoffDone
    \/ \E response \in Responses(messages) \cup ListResponses(messages) :
          ModelCallSucceeds(response)
    \/ ToolStep
    \/ StreamProject
    \/ StreamDone
    \/ StreamError

SpecStreamed ==
    InitStreamed /\ [][NextStreamed]_vars /\ WF_vars(NextStreamed)

\* a request with stream=false: result = await ainvoke(initial_state), no
\* generator runs
InitBuffered == Init /\ ~stream_mode

NextBuffered ==
    \/ WrapperEnter
    \/ \E e \in Errors : ModelCallFails(e)
    \/ BackoffDone
    \/ \E response \in Responses(messages) \cup ListResponses(messages) :
          ModelCallSucceeds(response)
    \/ ToolStep
    \/ EndpointReturns
    \/ EndpointFails

SpecBuffered ==
    InitBuffered /\ [][NextBuffered]_vars /\ WF_vars(NextBuffered)

----------------------------------------------------------------------------
(* SpecCancel: one request that may be cancelled or lose its consumer *)

NextCancel ==
    \/ Next
    \/ Cancel
    \/ Disconnect

SpecCancel == Init /\ [][NextCancel]_vars

----------------------------------------------------------------------------
(* SpecLoop: a model that asks for one tool at a time, for as long as it   *)
(* likes, and never fails                                                  *)

\* the agent messages of such a model: the answer, or one more request
LoopResponses(msgs) ==
    { AIMessage(Str("Travel plan"), <<>>),
      AIMessage(RequestContent,
                WithIds(<<[name |-> "get_weather", args |-> {"location"}]>>,
                        ToolCallCount(msgs))) }

NextLoop ==
    \/ WrapperEnter
    \/ \E response \in LoopResponses(messages) : ModelCallSucceeds(response)
    \/ ToolStep
    \/ RecursionLimitReached
    \/ StreamProject
    \/ StreamDone
    \/ StreamError
    \/ EndpointReturns
    \/ EndpointFails

\* the event loop keeps running whatever can run
SpecLoop == Init /\ [][NextLoop]_vars /\ WF_vars(NextLoop)

----------------------------------------------------------------------------
(* SpecRetry: one wrapped call under the configurations RetryConfig accepts *)

\* RetryConfig.initial_delay: Field(ge=0.1, le=10.0), in whole seconds
InitialDelays == {1, 3, 10}
\* RetryConfig.exponential_base: Field(ge=1.0, le=5.0)
ExponentialBases == {1, 2, 5}
\* RetryConfig.max_delay: Field(ge=1.0, le=300.0)
MaxDelays == {1, 4, 60, 300}

InitRetry ==
    /\ InitConversation
    /\ app = "server"
    /\ query = UserQuery
    /\ prompt = None
    /\ stream_mode = FALSE
    /\ max_retries \in RetryMaxRetriesGe..RetryMaxRetriesLe
    /\ initial_delay \in InitialDelays
    /\ exponential_base \in ExponentialBases
    /\ max_delay \in MaxDelays

NextRetry ==
    \/ WrapperEnter
    \/ \E e \in Errors : ModelCallFails(e)
    \/ BackoffDone
    \/ \E response \in FinalResponses(messages) : ModelCallSucceeds(response)

SpecRetry == InitRetry /\ [][NextRetry]_vars

----------------------------------------------------------------------------
(* SpecRouter: the conditional edge on arbitrary histories *)

\* the messages a probed history is made of
RouterMessages ==
    {HumanMessage(UserQuery)}
    \cup { AIMessage(c, WithIds(shapes, 0)) :
             c \in Contents, shapes \in SeqsUpTo(CallShapes, 1) }
    \cup { ToolMessage(c, 1, n) :
             c \in {get_weather, "Tool not found"},
             n \in {"get_weather", "book_hotel"} }

RouterHistories == SeqsUpTo(RouterMessages, MaxRouterHistory) \ {<<>>}

\* add_conditional_edges("agent", should_continue, {"tools": "tools", END: END})
RouterDecides ==
    /\ rpc = "router"
    /\ node' = should_continue(messages)
    /\ rpc' = "routed"
    /\ UNCHANGED <<messages, steps, attempt, delay, sleeps, calls, failures,
                   last_error, result, raised, retry_vars, request_vars, other_vars,
                   pending, output_vars>>

InitRouter ==
    /\ messages \in RouterHistories
    /\ node = "agent"
    /\ steps = <<>>
    /\ rpc = "router"
    /\ attempt = 0
    /\ delay = 0
    /\ sleeps = <<>>
    /\ calls = 0
    /\ failures = 0
    /\ last_error = None
    /\ result = None
    /\ raised = None
    /\ pending = <<>>
    /\ stream = <<>>
    /\ step_number = 0
    /\ http = <<>>
    /\ NoOther
    /\ app = "server"
    /\ query = UserQuery
    /\ prompt = None
    /\ stream_mode = FALSE
    /\ max_retries = ServerMaxRetries
    /\ initial_delay = ServerInitialDelay
    /\ exponential_base = DefaultExponentialBase
    /\ max_delay = DefaultMaxDelay

NextRouter == RouterDecides

SpecRouter == InitRouter /\ [][NextRouter]_vars

----------------------------------------------------------------------------
(* SpecEndpoint: the endpoint of main.py from the request on *)

\* mutant: only a missing value counts as no value
FalsyNoneOnly(x) == x = None

\* not x, for x a string or None
Falsy(x) == x = None \/ x = ""

\* TravelRequest.get_query: return self.query or self.prompt or ""
get_query ==
    IF ~Falsy(query) THEN query
    ELSE IF ~Falsy(prompt) THEN prompt
    ELSE ""

MissingQuery == "Missing required field: 'query' or 'prompt'"

\* user_query = request.get_query(); if not user_query: raise
\* HTTPException(status_code=422, ...); otherwise the initial state is built
\* from the query, for stream_llm_response or for ainvoke
EndpointValidates ==
    /\ rpc = "request"
    /\ LET user_query == get_query IN
       IF Falsy(user_query)
       THEN /\ http' = <<ErrorPayload(422, MissingQuery)>>
            /\ rpc' = "rejected"
            /\ UNCHANGED messages
       ELSE /\ messages' = <<HumanMessage(user_query)>>
            /\ rpc' = "idle"
            /\ UNCHANGED http
    /\ UNCHANGED <<node, steps, attempt, delay, sleeps, calls, failures,
                   last_error, result, raised, retry_vars, request_vars, other_vars,
                   pending, stream, step_number>>

\* the values of the request fields query and prompt: missing, empty, text
Queries == {None, "", UserQuery}
Prompts == {None, "", "A weekend in Paris"}

InitEndpoint ==
    /\ messages = <<>>
    /\ node = "agent"
    /\ steps = <<>>
    /\ rpc = "request"
    /\ attempt = 0
    /\ delay = 0
    /\ sleeps = <<>>
    /\ calls = 0
    /\ failures = 0
    /\ last_error = None
    /\ result = None
    /\ raised = None
    /\ pending = <<>>
    /\ stream = <<>>
    /\ step_number = 0
    /\ http = <<>>
    /\ NoOther
    /\ app = "main"
    /\ query \in Queries
    /\ prompt \in Prompts
    /\ stream_mode \in BOOLEAN
    /\ max_retries = ServerMaxRetries
    /\ initial_delay = ServerInitialDelay
    /\ exponential_base = DefaultExponentialBase
    /\ max_delay = DefaultMaxDelay

NextEndpoint ==
    \/ EndpointValidates
    \/ WrapperEnter
    \/ \E e \in Errors : ModelCallFails(e)
    \/ BackoffDone
    \/ \E response \in FinalResponses(messages) \cup ListResponses(messages) :
          ModelCallSucceeds(response)
    \/ StreamProject
    \/ StreamDone
    \/ StreamError
    \/ EndpointReturns
    \/ EndpointFails

SpecEndpoint == InitEndpoint /\ [][NextEndpoint]_vars

----------------------------------------------------------------------------
(* SpecTools: the tool bodies of main.py and server.py invoked directly *)

\* str.lower(), letter by letter
LowerChar(c) ==
    CASE c = "A" -> "a" [] c = "B" -> "b" [] c = "C" -> "c" [] c = "D" -> "d"
      [] c = "E" -> "e" [] c = "F" -> "f" [] c = "G" -> "g" [] c = "H" -> "h"
      [] c = "I" -> "i" [] c = "J" -> "j" [] c = "K" -> "k" [] c = "L" -> "l"
      [] c = "M" -> "m" [] c = "N" -> "n" [] c = "O" -> "o" [] c = "P" -> "p"
      [] c = "Q" -> "q" [] c = "R" -> "r" [] c = "S" -> "s" [] c = "T" -> "t"
      [] c = "U" -> "u" [] c = "V" -> "v" [] c = "W" -> "w" [] c = "X" -> "x"
      [] c = "Y" -> "y" [] c = "Z" -> "z" [] OTHER -> c

RECURSIVE Lower(_)
Lower(text) ==
    IF Len(text) = 0 THEN ""
    ELSE LowerChar(SubSeq(text, 1, 1)) \o Lower(SubSeq(text, 2, Len(text)))

no_airport_cities ==
    {"mancheriyal", "karimnagar", "nizamabad", "adilabad", "khammam",
     "warangal", "nalgonda", "mahbubnagar", "medak", "rangareddy"}

\* the keys of attractions_db
AttractionsDbKeys == {"Mancheriyal", "Austin", "Tokyo"}

\* the names of the entries of attractions_db[location], as json.dumps
\* writes them one after the other
AttractionsDb(location) ==
    CASE location = "Mancheriyal" ->
           "Kala Ashram, Godavari River Banks, Local Temples, "
           \o "Mancheriyal Market"
      [] location = "Austin" ->
           "Texas State Capitol, Lady Bird Lake, South Congress Avenue, "
           \o "Zilker Park, Congress Avenue Bridge, Live Music District"
      [] location = "Tokyo" ->
           "Shibuya Crossing, Senso-ji Temple, Tokyo Skytree, Tokyo Tower, "
           \o "Meiji Shrine, Ueno Park"

KeyError == "KeyError"

\* mutant: the list is drawn with the random module
AttractionsSampled(location, rnd) ==
    IF location \in AttractionsDbKeys
    THEN [raised |-> None,
          value |-> SubSeq(AttractionsDb(location), 1, (rnd % 11) + 10)]
    ELSE [raised |-> KeyError, value |-> None]

\* attractions_list = attractions_db[location]; rnd is the state of the
\* random module, which the statement does not use
Attractions(location, rnd) ==
    IF location \in AttractionsDbKeys
    THEN [raised |-> None, value |-> AttractionsDb(location)]
    ELSE [raised |-> KeyError, value |-> None]

\* mutant: the database is read without the membership test
InAttractionsDbUnchecked(location) == TRUE

\* if location in attractions_db
InAttractionsDb(location) == location \in AttractionsDbKeys

Recommendation ==
    "Consider searching online travel guides, local tourism websites, or "
    \o "popular review platforms like TripAdvisor, Google Maps, or local "
    \o "government tourism pages for up-to-date information about "
    \o "attractions in this area."

\* main.py's find_attractions(location, category)
MainFindAttractions(location, category, rnd) ==
    IF InAttractionsDb(location)
    THEN LET attractions_list == Attractions(location, rnd) IN
         IF attractions_list.raised # None
         THEN attractions_list
         ELSE [raised |-> None,
               value |-> "{location: " \o location \o ", category: "
                         \o category \o ", attractions: ["
                         \o attractions_list.value \o "]}"]
    ELSE [raised |-> None,
          value |-> "{location: " \o location \o ", category: " \o category
                    \o ", message: Detailed attraction data for " \o location
                    \o " is not available in our database., recommendation: "
                    \o Recommendation \o ", attractions: []}"]

\* the digits of a price between 0 and 999
Digit(d) == SubSeq("0123456789", d + 1, d + 1)
PriceText(n) == Digit(n \div 100) \o Digit((n \div 10) % 10) \o Digit(n % 10)

\* main.py's search_flights(origin, destination, date); base_price is what
\* random.randint(350, 700) returns
MainSearchFlights(origin, destination, date, base_price) ==
    IF Lower(destination) \in no_airport_cities
    THEN [raised |-> None,
          value |-> "{message: No commercial flights available to "
                    \o destination \o ". This destination does not have a "
                    \o "commercial airport., alternatives: [Road Transport "
                    \o "from " \o origin \o ", Train from " \o origin
                    \o "], origin: " \o origin \o ", destination: "
                    \o destination \o ", date: " \o date \o "}"]
    ELSE [raised |-> None,
          value |-> "{flights: [Direct Airlines DA101 "
                    \o PriceText(base_price) \o ", Express Air EA202 "
                    \o PriceText(base_price - 30) \o ", Sky Connect SC303 "
                    \o PriceText(base_price + 30) \o "], origin: " \o origin
                    \o ", destination: " \o destination \o ", date: " \o date
                    \o "}"]

\* the body of the tool the invocation names, in the application's module;
\* server.py's tools return their fixed data whatever the arguments
ToolBody(i, rnd) ==
    IF app = "main"
    THEN IF i.name = "find_attractions"
         THEN MainFindAttractions(i.location, i.category, rnd)
         ELSE MainSearchFlights(i.origin, i.destination, i.date, rnd)
    ELSE [raised |-> None,
          value |-> IF i.name = "find_attractions" THEN find_attractions
                    ELSE search_flights]

\* the values random.randint(350, 700) is taken to return
BasePrices == {350, 525, 700}

\* the invocations under test: locations in and out of the database (its
\* keys are case-sensitive), destinations with and without an airport
Invocations ==
    { [name |-> "find_attractions", location |-> l, category |-> c,
       origin |-> "", destination |-> "", date |-> ""] :
        l \in {"Tokyo", "Austin", "Mancheriyal", "Atlantis", "tokyo"},
        c \in {"all", "cultural"} }
    \cup
    { [name |-> "search_flights", location |-> "", category |-> "",
       origin |-> o, destination |-> d, date |-> "2025-12-01"] :
        o \in {"Singapore", "Hyderabad"},
        d \in {"Tokyo", "Warangal", "KHAMMAM", "medak"} }

\* how often the invocation under test is repeated
MaxInvocations == 2

\* the tool is invoked with the arguments under test
InvokeTool ==
    /\ invoked # <<>>
    /\ Len(returned) < MaxInvocations
    /\ \E rnd \in BasePrices :
          returned' = Append(returned, ToolBody(invoked[1], rnd))
    /\ UNCHANGED <<loop_vars, request_vars, pending, output_vars, invoked,
                   convs>>

InitTools ==
    /\ messages = <<>>
    /\ node = "agent"
    /\ steps = <<>>
    /\ rpc = "idle"
    /\ attempt = 0
    /\ delay = 0
    /\ sleeps = <<>>
    /\ calls = 0
    /\ failures = 0
    /\ last_error = None
    /\ result = None
    /\ raised = None
    /\ pending = <<>>
    /\ stream = <<>>
    /\ step_number = 0
    /\ http = <<>>
    /\ app \in Apps
    /\ query = UserQuery
    /\ prompt = None
    /\ stream_mode = FALSE
    /\ max_retries = ServerMaxRetries
    /\ initial_delay = ServerInitialDelay
    /\ exponential_base = DefaultExponentialBase
    /\ max_delay = DefaultMaxDelay
    /\ invoked \in { <<i>> : i \in Invocations }
    /\ returned = <<>>
    /\ convs = <<>>

NextTools == InvokeTool

SpecTools == InitTools /\ [][NextTools]_vars

----------------------------------------------------------------------------
(* SpecTasks: several requests in flight on the one event loop of the      *)
(* server; each request handler builds its own initial_state and awaits    *)
(* its own run of the compiled graph                                       *)

\* the number of conversations in flight
NumConversations == 2

\* how often the model call of one conversation fails before it succeeds
MaxTaskFailures == 1

Conversations == 1..NumConversations

\* the queries of the requests, one per conversation
TaskQueries ==
    [i \in Conversations |->
        CASE i = 1 -> "Plan a trip to Tokyo"
          [] i = 2 -> "Plan a trip to Austin"
          [] OTHER -> "Plan a trip to Mancheriyal"]

\* initial_state = {"messages": [HumanMessage(content=query)]}
TaskInitialState(q) == <<HumanMessage(q)>>

\* a deterministic model: it asks for the weather once, then answers the
\* query the history starts with
TaskModel(msgs) ==
    IF \E k \in 1..Len(msgs) : msgs[k].type = "tool"
    THEN AIMessage(Str("Travel plan for: " \o msgs[1].content.text), <<>>)
    ELSE AIMessage(RequestContent,
                   WithIds(<<[name |-> "get_weather", args |-> {"location"}]>>,
                           ToolCallCount(msgs)))

\* mutant: the state is a module-level object all runs share
StateOfShared(cs, i) == cs[1].messages

\* the state a node of run i is called with: the one of its own run
StateOf(cs, i) == cs[i].messages

\* whether the conversation occupies the event loop thread between two
\* steps: server.py's coroutine tool_node calls t.invoke synchronously;
\* ToolNode of main.py awaits the tool, whose body runs in an executor
\* thread; model calls and backoff sleeps are awaited in both
OnLoopThread(c) == app = "server" /\ c.phase = "tool"

\* the event loop can resume task i: no other task occupies its thread
Schedulable(cs, i) ==
    \A j \in Conversations : j # i => ~OnLoopThread(cs[j])

\* the run of conversation i adds an update to its state; produced records
\* the messages the steps of this run returned
TaskUpdate(i, update, to_node) ==
    LET msgs == add_messages(StateOf(convs, i), update) IN
    convs' = [convs EXCEPT ![i] =
                [@ EXCEPT !.messages = msgs,
                          !.produced = @ \o update,
                          !.node = to_node,
                          !.phase = IF to_node = END THEN "done"
                                    ELSE "ready"]]

TaskUnchanged == UNCHANGED <<loop_vars, request_vars, pending, output_vars,
                             invoked, returned>>

\* the agent node starts: await llm_with_tools.ainvoke(...)
TaskEnterAgent(i) ==
    /\ convs[i].phase = "ready"
    /\ convs[i].node = "agent"
    /\ Schedulable(convs, i)
    /\ convs' = [convs EXCEPT ![i].phase = "call"]
    /\ TaskUnchanged

\* the model call returns
TaskModelReturns(i) ==
    /\ convs[i].phase = "call"
    /\ Schedulable(convs, i)
    /\ LET response == TaskModel(StateOf(convs, i)) IN
       TaskUpdate(i, <<response>>,
                  should_continue(add_messages(StateOf(convs, i),
                                               <<response>>)))
    /\ TaskUnchanged

\* the model call fails: await asyncio.sleep(delay)
TaskModelFails(i) ==
    /\ convs[i].phase = "call"
    /\ convs[i].failures < MaxTaskFailures
    /\ convs[i].failures < max_retries - 1
    /\ Schedulable(convs, i)
    /\ convs' = [convs EXCEPT ![i].phase = "sleep",
                              ![i].failures = @ + 1]
    /\ TaskUnchanged

\* the backoff sleep is over: the call is made again
TaskBackoffDone(i) ==
    /\ convs[i].phase = "sleep"
    /\ Schedulable(convs, i)
    /\ convs' = [convs EXCEPT ![i].phase = "call"]
    /\ TaskUnchanged

\* the tools node starts the invocation
TaskEnterTools(i) ==
    /\ convs[i].phase = "ready"
    /\ convs[i].node = "tools"
    /\ Schedulable(convs, i)
    /\ convs' = [convs EXCEPT ![i].phase = "tool"]
    /\ TaskUnchanged

\* the invocation returns
TaskToolsReturn(i) ==
    /\ convs[i].phase = "tool"
    /\ Schedulable(convs, i)
    /\ LET out == ToolsNode(StateOf(convs, i)) IN
       /\ out.raised = None
       /\ TaskUpdate(i, out.messages, ToolsEdge)
    /\ TaskUnchanged

\* the run of a conversation on its own, without failures
RECURSIVE RunAlone(_, _)
RunAlone(msgs, at) ==
    IF at = END THEN msgs
    ELSE IF at = "agent"
    THEN LET m == add_messages(msgs, <<TaskModel(msgs)>>) IN
         RunAlone(m, should_continue(m))
    ELSE RunAlone(add_messages(msgs, ToolsNode(msgs).messages), ToolsEdge)

InitTasks ==
    /\ messages = <<>>
    /\ node = "agent"
    /\ steps = <<>>
    /\ rpc = "idle"
    /\ attempt = 0
    /\ delay = 0
    /\ sleeps = <<>>
    /\ calls = 0
    /\ failures = 0
    /\ last_error = None
    /\ result = None
    /\ raised = None
    /\ pending = <<>>
    /\ stream = <<>>
    /\ step_number = 0
    /\ http = <<>>
    /\ app \in Apps
    /\ query = UserQuery
    /\ prompt = None
    /\ stream_mode \in BOOLEAN
    /\ max_retries = ServerMaxRetries
    /\ initial_delay = ServerInitialDelay
    /\ exponential_base = DefaultExponentialBase
    /\ max_delay = DefaultMaxDelay
    /\ invoked = <<>>
    /\ returned = <<>>
    /\ convs = [i \in Conversations |->
                  [query |-> TaskQueries[i],
                   messages |-> TaskInitialState(TaskQueries[i]),
                   produced |-> <<>>,
                   node |-> "agent",
                   phase |-> "ready",
                   failures |-> 0]]

NextTasks ==
    \E i \in Conversations :
        \/ TaskEnterAgent(i)
        \/ TaskModelReturns(i)
        \/ TaskModelFails(i)
        \/ TaskBackoffDone(i)
        \/ TaskEnterTools(i)
        \/ TaskToolsReturn(i)

SpecTasks == InitTasks /\ [][NextTasks]_vars

----------------------------------------------------------------------------
(* Claims *)

IsAgentWithCalls(m) == m.type = "ai" /\ Len(m.tool_calls) >= 1

\* C1: the loop starts in the agent node with a history of one user message;
\* the node changes only agent -> tools (the last message then requests
\* tools), agent -> END (it requests none) and tools -> agent; the completed
\* steps alternate between agent and tools, and nothing runs after END.
C1_Step ==
    /\ node' # node =>
         \/ node = "agent" /\ node' = "tools" /\ IsAgentWithCalls(Last(messages'))
         \/ node = "agent" /\ node' = END /\ ~IsAgentWithCalls(Last(messages'))
         \/ node = "tools" /\ node' = "agent"
    /\ steps' # steps =>
         /\ \E s \in {"agent", "tools"} : steps' = Append(steps, s) /\ s = node
         /\ steps # <<>> => Last(steps') # Last(steps)
         /\ node' # node
    /\ node = END => UNCHANGED loop_vars
C1_LoopTransitions ==
    /\ node = "agent" /\ steps = <<>>
    /\ Len(messages) = 1 /\ messages[1].type = "human"
    /\ [][C1_Step]_vars
C1_Witness ==
    node = END /\ steps = <<"agent", "tools", "agent", "tools", "agent">>


\* C2: should_continue returns "tools" exactly when the last message of the
\* history is an agent message with at least one tool call request and END
\* in every other case, and every history with the same last message gets
\* the same decision.
C2_RouterDecision ==
    rpc = "routed" =>
        /\ node \in {"tools", END}
        /\ node = "tools" <=> IsAgentWithCalls(Last(messages))
        /\ \A h \in RouterHistories :
              Last(h) = Last(messages) => should_continue(h) = node
C2_Witness ==
    /\ rpc = "routed" /\ node = END /\ Len(messages) = 2
    /\ IsAgentWithCalls(messages[1]) /\ messages[2].type = "tool"

\* C3: in every reachable history the tool result messages after an agent
\* message answer that message's tool call requests one to one and in the
\* order of issue: the k-th message after it is the result carrying the
\* identifier and the name of its k-th request, the identifier names exactly
\* one request, and the next message after the results is an agent message.
ResultsMatchRequests(msgs) ==
    /\ \A j \in 1..Len(msgs) :
          msgs[j].type = "ai" /\ j < Len(msgs) =>
             LET tcs == msgs[j].tool_calls
                 n == Len(tcs)
             IN  /\ j + n <= Len(msgs)
                 /\ \A k \in 1..n :
                       /\ msgs[j + k].type = "tool"
                       /\ msgs[j + k].tool_call_id = tcs[k].id
                       /\ msgs[j + k].name = tcs[k].name
                       /\ Cardinality({q \in 1..n :
                                          tcs[q].id = msgs[j + k].tool_call_id}) = 1
                 /\ j + n < Len(msgs) => msgs[j + n + 1].type = "ai"
    /\ \A i \in 1..Len(msgs) :
          msgs[i].type = "tool" =>
             \E j \in 1..(i - 1) :
                /\ msgs[j].type = "ai"
                /\ i - j <= Len(msgs[j].tool_calls)
C3_ResultsMatchRequests == ResultsMatchRequests(messages)
C3_Witness ==
    /\ node = END
    /\ Len(messages) = 7
    /\ Len(messages[2].tool_calls) = 2
    /\ messages[3].type = "tool" /\ messages[4].type = "tool"
    /\ messages[3].name # messages[4].name
    /\ Len(messages[5].tool_calls) = 1
    /\ messages[6].type = "tool"

\* C4: the wrapper gives up only after max_retries failures, so after k <
\* max_retries failures it calls the model again; when that call succeeds
\* the wrapper returns its value, having made k + 1 calls and slept k
\* times (no sleep when the first call succeeds).
C4_SuccessAfterFailures ==
    /\ rpc = "call" =>
          failures = attempt /\ failures < max_retries /\ calls = failures
    /\ rpc = "raised" => failures >= max_retries
    /\ (rpc = "returned" /\ calls > 0) =>
          /\ failures < max_retries
          /\ calls = failures + 1
          /\ Len(sleeps) = failures
          /\ result = Last(messages) /\ result.type = "ai"
          /\ raised = None
C4_Witness ==
    /\ rpc = "returned" /\ max_retries = 4 /\ failures = 3 /\ calls = 4
    /\ Len(sleeps) = 3 /\ result.content = Str("Travel plan")

C6_BackoffDelays ==
    /\ \A i \in 1..Len(sleeps) :
          sleeps[i] = IF i = 1 THEN initial_delay
                      ELSE Min(sleeps[i - 1] * exponential_base, max_delay)
    /\ ( /\ max_retries = 3 /\ initial_delay = 1 /\ exponential_base = 2
         /\ max_delay = DefaultMaxDelay
         /\ rpc = "returned" /\ failures = 2 )
       => sleeps = <<1, 2>>
C6_Witness ==
    /\ rpc = "returned" /\ failures = 3
    /\ initial_delay = 3 /\ exponential_base = 2 /\ max_delay = 4
    /\ sleeps = <<3, 4, 4>>
C6_WitnessScenario ==
    /\ rpc = "returned" /\ failures = 2 /\ calls = 3
    /\ max_retries = 3 /\ initial_delay = 1 /\ exponential_base = 2
    /\ sleeps = <<1, 2>>

\* C7: an agent step whose retries are exhausted fails: it raises the last
\* error out of the graph run without appending a message or completing a
\* step, and after that no tool step and no agent step runs.
C7_Step ==
    /\ failures' = max_retries => rpc' = "raised"
    /\ (rpc' = "raised" /\ rpc # "raised") =>
          /\ failures' = max_retries
          /\ messages' = messages /\ steps' = steps /\ node' = node
          /\ raised' = last_error' /\ raised' \in Errors
    /\ rpc = "raised" => UNCHANGED loop_vars
C7_AgentFailureAborts == [][C7_Step]_vars
C7_Witness ==
    /\ rpc = "raised" /\ raised \in Errors
    /\ steps = <<"agent", "tools">> /\ node = "agent"
    /\ Last(messages).type = "tool"

IsRegistered(n) == n \in ToolNames

\* C8: a tool step whose requests include one that names a tool that is not
\* registered does not abort the run.
C8_UnknownToolNeverAborts ==
    ( /\ node = "tools"
      /\ \E k \in 1..Len(Last(messages).tool_calls) :
            ~IsRegistered(Last(messages).tool_calls[k].name) )
    => raised = None

\* C9: a tool step whose requests include one to a registered tool that
\* lacks a required argument does not abort the run.
C9_InvalidArgumentsNeverAbort ==
    ( /\ node = "tools"
      /\ \E k \in 1..Len(Last(messages).tool_calls) :
            LET tc == Last(messages).tool_calls[k] IN
            IsRegistered(tc.name) /\ ~(RequiredParams(tc.name) \subseteq tc.args) )
    => raised = None

\* C10: every agent step that completes appends exactly one message to the
\* history, the agent message the retried model call returned, and leaves
\* the earlier messages as they were.
C10_Step ==
    steps' = Append(steps, "agent") =>
        /\ Len(messages') = Len(messages) + 1
        /\ SubSeq(messages', 1, Len(messages)) = messages
        /\ Last(messages') = result' /\ result'.type = "ai"
C10_AgentStepAppendsOne == [][C10_Step]_vars
C10_Witness ==
    /\ steps = <<"agent", "tools", "agent">>
    /\ failures = 2 /\ rpc = "returned"
    /\ Len(messages) = 5


\* C11: the history of a conversation is append-only: across every step the
\* history before the step is a prefix of the history after it, so that no
\* message is rewritten, reordered or deleted.
IsPrefix(s, t) == Len(s) <= Len(t) /\ SubSeq(t, 1, Len(s)) = s

C11_Step == IsPrefix(messages, messages')
C11_AppendOnly == [][C11_Step]_vars
C11_Witness ==
    /\ steps = <<"agent", "tools", "agent", "tools">>
    /\ Len(messages) >= 5

\* C12: whenever the model is invoked, on a first attempt or on a retry,
\* every tool call request of the history has exactly one tool result message
\* with its call identifier.
ResultsFor(msgs, id) ==
    { j \in 1..Len(msgs) : msgs[j].type = "tool" /\ msgs[j].tool_call_id = id }

AllRequestsAnswered(msgs) ==
    \A i \in 1..Len(msgs) :
        \A k \in 1..Len(msgs[i].tool_calls) :
            Cardinality(ResultsFor(msgs, msgs[i].tool_calls[k].id)) = 1

C12_InvokedOnAnsweredHistory == rpc = "call" => AllRequestsAnswered(messages)
C12_Witness ==
    /\ rpc = "call"
    /\ attempt >= 1
    /\ ToolCallCount(messages) >= 2
    /\ Len(steps) >= 2


\* C13: in buffered mode a run that reaches DONE returns as response the
\* content of the last message of the history, an agent message without tool
\* call requests, and as used_tools the tool names of the run, each exactly
\* once, in the order in which each was first seen in the history.
FirstSeen(msgs, n) ==
    CHOOSE j \in 1..Len(msgs) :
        /\ msgs[j].name = n
        /\ \A i \in 1..(j - 1) : msgs[i].name # n

IsFirstSeenOrder(msgs, names) ==
    /\ \A i, j \in 1..Len(names) : i # j => names[i] # names[j]
    /\ { names[i] : i \in 1..Len(names) } =
       { msgs[j].name : j \in { k \in 1..Len(msgs) : msgs[k].type = "tool" } }
    /\ \A i, j \in 1..Len(names) :
          i < j => FirstSeen(msgs, names[i]) < FirstSeen(msgs, names[j])

BufferedRunDone == app = "main" /\ ~stream_mode /\ node = END /\ http # <<>>

C13_BufferedAnswer ==
    BufferedRunDone =>
        /\ Last(messages).type = "ai"
        /\ Last(messages).tool_calls = <<>>
        /\ http[1].kind = "answer"
        /\ Str(http[1].response) = Last(messages).content
        /\ http[1].has_used_tools
        /\ IsFirstSeenOrder(messages, http[1].used_tools)

\* C14: an incremental-mode stream ends with exactly one terminal record:
\* [DONE] when the loop reached DONE, an error record with the failure
\* description when the loop aborted; never both, and nothing after it.
Terminals(records) ==
    { i \in 1..Len(records) : records[i].type \in {"done", "error"} }

C14_Step ==
    /\ Closed => stream' = stream
    /\ Cardinality(Terminals(stream')) <= 1
    /\ Terminals(stream') # {} => Closed'
    /\ Closed' =>
          IF Last(stream').type = "done"
          THEN node' = END /\ raised' = None
          ELSE raised' # None /\ Last(stream').content = raised'
    /\ stream' # <<>> => stream_mode

C14_OneTerminalRecord == [][C14_Step]_vars /\ (stream_mode => <>Closed)
C14_Witness ==
    /\ Closed
    /\ Last(stream).type = "error"
    /\ Len(stream) >= 4
    /\ steps = <<"agent", "tools">>
C14_WitnessDone ==
    /\ Closed
    /\ Last(stream).type = "done"
    /\ Len(steps) = 3


\* C15: in incremental mode the records are emitted in the order the loop
\* produces the steps: every record derived from one step comes before every
\* record derived from a later step, the tool-requested records of one agent
\* message come in issuance order and the tool-completed records of one Tool
\* Step in the order of its result messages.
Emitted == { i \in 1..Len(stream) : stream[i].type \notin {"done", "error"} }

\* the record tells what the message it is derived from holds
FromItsMessage(r) ==
    /\ r.msg \in 2..Len(messages)
    /\ r.type = "tool_request" =>
          /\ r.call \in 1..Len(messages[r.msg].tool_calls)
          /\ messages[r.msg].tool_calls[r.call].name = r.tool
    /\ r.type = "tool_result" =>
          messages[r.msg].type = "tool" /\ messages[r.msg].name = r.tool
    /\ r.type = "final_response" =>
          messages[r.msg].type = "ai" /\ messages[r.msg].tool_calls = <<>>

InLoopOrder(a, b) ==
    /\ a.msg <= b.msg
    /\ a.msg = b.msg => a.call <= b.call
    /\ (a.type = "tool_request" /\ b.type = "tool_request") =>
          (a.msg < b.msg \/ a.call < b.call)
    /\ (a.type = "tool_result" /\ b.type = "tool_result") => a.msg < b.msg

C15_EventsInLoopOrder ==
    /\ \A i \in Emitted : FromItsMessage(stream[i])
    /\ \A i, j \in Emitted : i < j => InLoopOrder(stream[i], stream[j])
    /\ \A i \in Emitted : \A j \in 1..Len(stream) :
          stream[j].type \in {"done", "error"} => i < j
C15_Witness ==
    /\ Closed
    /\ steps = <<"agent", "tools", "agent", "tools", "agent">>
    /\ Len(messages[2].tool_calls) = 2
    /\ \E i \in Emitted : stream[i].type = "final_response"


\* C16: an incremental-mode stream that ends with done holds exactly one
\* final-content record, emitted for the agent message without tool call
\* requests, and no final-content record is ever emitted for an agent
\* message with tool call requests.
Finals(records) ==
    { i \in 1..Len(records) : records[i].type = "final_response" }

EndsWithDone == Closed /\ Last(stream).type = "done"

C16_OneFinalContent ==
    /\ \A i \in Finals(stream) : messages[stream[i].msg].tool_calls = <<>>
    /\ EndsWithDone =>
          /\ Cardinality(Finals(stream)) = 1
          /\ \A i \in Finals(stream) : stream[i].msg = Len(messages)

\* C17: for the same input and a deterministic model and tool set, the
\* concatenation of the bodies of the final-content records of the stream
\* equals the response field buffered mode returns. The history a run ends
\* with is the same in both modes, so the buffered response is the one the
\* endpoint builds from the history the stream ended on.
RECURSIVE FinalBodies(_)
FinalBodies(records) ==
    IF records = <<>> THEN ""
    ELSE IF Head(records).type = "final_response"
    THEN Head(records).content \o FinalBodies(Tail(records))
    ELSE FinalBodies(Tail(records))

C17_StreamEqualsBuffered ==
    EndsWithDone =>
        /\ Buffered(messages).kind = "answer"
        /\ FinalBodies(stream) = Buffered(messages).response

\* C18: if the first agent message requests search_flights, get_weather and
\* find_attractions in that order and the second agent message requests no
\* tool, the run is exactly Agent Step, Tool Step, Agent Step, the Tool Step
\* appends exactly three result messages in that order, the router then
\* returns stop, and buffered used_tools is the three names in that order.
ThreeTools == <<"search_flights", "get_weather", "find_attractions">>

Names(tool_calls) == [k \in 1..Len(tool_calls) |-> tool_calls[k].name]

FirstRequestsThree ==
    /\ Len(messages) >= 2
    /\ Names(messages[2].tool_calls) = ThreeTools

SecondRequestsNone ==
    /\ Len(messages) >= 6
    /\ messages[6].type = "ai"
    /\ messages[6].tool_calls = <<>>

C18_ThreeToolRun ==
    FirstRequestsThree =>
        \* the Tool Step runs and appends the three results
        /\ Len(steps) = 1 => node = "tools" /\ raised = None
        /\ Len(steps) >= 2 =>
              /\ steps[2] = "tools"
              /\ Len(messages) >= 5
              /\ \A k \in 1..3 :
                    /\ messages[2 + k].type = "tool"
                    /\ messages[2 + k].name = ThreeTools[k]
                    /\ messages[2 + k].tool_call_id =
                          messages[2].tool_calls[k].id
              /\ Len(messages) >= 6 => messages[6].type = "ai"
        \* the second agent message ends the run
        /\ SecondRequestsNone =>
              /\ steps = <<"agent", "tools", "agent">>
              /\ Len(messages) = 6
              /\ node = END
              /\ (app = "main" /\ http # <<>>) =>
                    /\ http[1].kind = "answer"
                    /\ http[1].used_tools = ThreeTools

\* C19: a request whose query and prompt are both missing or empty is
\* rejected with a validation error (status 400 or 422), in buffered and in
\* streaming mode, and no Agent Step, model call or tool invocation is
\* performed for it.
MissingOrEmpty(x) == x = None \/ x = ""

C19_EmptyRequestRejected ==
    (MissingOrEmpty(query) /\ MissingOrEmpty(prompt)) =>
        /\ rpc \in {"request", "rejected"}
        /\ rpc = "rejected" =>
              /\ Len(http) = 1
              /\ http[1].kind = "error"
              /\ http[1].status \in {400, 422}
        /\ rpc = "request" => http = <<>>
        /\ steps = <<>>
        /\ calls = 0
        /\ failures = 0
        /\ messages = <<>>
        /\ stream = <<>>
C19_Witness ==
    /\ rpc = "rejected"
    /\ stream_mode
    /\ query = ""
    /\ prompt = None
C19_WitnessBuffered ==
    /\ rpc = "rejected"
    /\ ~stream_mode
    /\ query = None
    /\ prompt = ""

\* C20: in buffered mode, when the loop aborts with a fatal failure the
\* caller receives exactly one error payload with the failure description
\* and status 500, and never a partial answer with a response or used_tools.
C20_Step ==
    /\ http # <<>> => http' = http
    /\ (~stream_mode /\ raised' # None /\ http' # <<>>) =>
          /\ Len(http') = 1
          /\ http'[1].kind = "error"
          /\ http'[1].status = 500
          /\ http'[1].error = raised'
          /\ ~http'[1].has_used_tools

C20_BufferedFailure ==
    /\ [][C20_Step]_vars
    /\ (~stream_mode /\ raised # None) ~> (http # <<>>)
C20_Witness ==
    /\ ~stream_mode
    /\ raised = "ValidationError"
    /\ http # <<>>
    /\ Len(messages) >= 3
C20_WitnessModel ==
    /\ ~stream_mode
    /\ raised \in Errors
    /\ http # <<>>
    /\ Len(steps) = 2


\* C21: the loop enforces no iteration bound of its own: for every n >= 0,
\* if the model returns n agent messages with tool call requests followed by
\* one without, and no Agent Step exhausts its retries, the loop eventually
\* reaches DONE after exactly n Tool Steps and n + 1 Agent Steps.
StepCount(name) == Cardinality({ i \in 1..Len(steps) : steps[i] = name })

RequestingMessages ==
    Cardinality({ i \in 1..Len(messages) : IsAgentWithCalls(messages[i]) })

C21_TerminatesWhenModelStops ==
    /\ [](raised # None => rpc = "raised")
    /\ [](node = END =>
            /\ StepCount("tools") = RequestingMessages
            /\ StepCount("agent") = RequestingMessages + 1)
    /\ <>(node = END \/ rpc = "raised")


\* C22: when two conversations are in flight at once and their steps
\* interleave in any order, the history of each holds only its own user
\* message and the agent and tool messages its own steps produced, and its
\* final result is the one it has when it runs alone.
C22_ConversationsIsolated ==
    \A i \in Conversations :
        LET c == convs[i] IN
        /\ c.messages = TaskInitialState(c.query) \o c.produced
        /\ \A j \in Conversations :
              j # i => \A k \in 1..Len(c.messages) :
                          c.messages[k] # HumanMessage(convs[j].query)
        /\ c.phase = "done" =>
              c.messages = RunAlone(TaskInitialState(c.query), "agent")
C22_Witness ==
    /\ \A i \in Conversations :
          /\ convs[i].phase = "done"
          /\ Len(convs[i].messages) = 4
          /\ convs[i].failures = 1
    /\ Last(convs[1].messages) # Last(convs[2].messages)
C22_WitnessInterleaved ==
    /\ convs[1].phase = "tool"
    /\ convs[2].phase = "sleep"
    /\ Len(convs[2].messages) = 3

\* C23: while one conversation is suspended in a model call, a backoff sleep
\* or a tool invocation, another conversation in flight can take its next
\* step.
C23_OthersKeepRunning ==
    \A i, j \in Conversations :
        (/\ i # j
         /\ convs[i].phase \in {"call", "sleep", "tool"}
         /\ convs[j].phase # "done") => Schedulable(convs, j)

\* C24: a cancellation that arrives while the retry wrapper is in a backoff
\* sleep or in a model call is not counted as a failed attempt and is not
\* retried: the sleep ends and no further model call or tool invocation is
\* made for the conversation.
C24_Step ==
    /\ last_error' # CancelledError
    /\ (raised = None /\ raised' = CancelledError /\ rpc \in {"call", "sleep"}) =>
          /\ rpc' \in {"call_cancelled", "sleep_cancelled"}
          /\ UNCHANGED <<failures, attempt, calls, sleeps, delay>>
    /\ raised = CancelledError =>
          UNCHANGED <<rpc, calls, failures, sleeps, attempt, steps, messages,
                      node>>

C24_CancellationNotRetried == [][C24_Step]_vars
C24_Witness ==
    /\ rpc = "sleep_cancelled"
    /\ raised = CancelledError
    /\ failures = 2
    /\ Len(steps) = 2
C24_WitnessCall ==
    /\ rpc = "call_cancelled"
    /\ raised = CancelledError
    /\ failures = 1

\* C25: after the consumer of an incremental-mode stream disconnects, no
\* further record is produced and the loop takes no further Agent Step or
\* Tool Step; the disconnect is not reported as an error record.
C25_Step ==
    /\ (stream_mode /\ raised' = CancelledError) =>
          /\ stream' = stream
          /\ UNCHANGED <<steps, messages, calls, node>>
    /\ (stream_mode /\ raised = CancelledError) => raised' = CancelledError

C25_DisconnectStopsProduction == [][C25_Step]_vars
C25_Witness ==
    /\ stream_mode
    /\ raised = CancelledError
    /\ pending # <<>>
    /\ Len(stream) >= 2
    /\ node = "agent"


\* C26: the registered tools return a result string and never fail for
\* inputs they have no data for: find_attractions with a location that is not
\* in its database and search_flights with a destination without an airport
\* each return a descriptive payload instead of raising.
NoDataFor(i) ==
    \/ i.name = "find_attractions" /\ i.location \notin AttractionsDbKeys
    \/ i.name = "search_flights" /\ Lower(i.destination) \in no_airport_cities

\* whether text holds part somewhere
Holds(text, part) ==
    \E k \in 1..(Len(text) - Len(part) + 1) :
        SubSeq(text, k, k + Len(part) - 1) = part

C26_ToolsTolerateUnknownInput ==
    \A k \in 1..Len(returned) :
        /\ returned[k].raised = None
        /\ returned[k].value # None
        /\ Len(returned[k].value) > 0
        /\ (app = "main" /\ NoDataFor(invoked[1])) =>
              /\ Holds(returned[k].value, "message: ")
              /\ Holds(returned[k].value,
                       IF invoked[1].name = "find_attractions"
                       THEN invoked[1].location ELSE invoked[1].destination)
C26_Witness ==
    /\ app = "main"
    /\ invoked[1].name = "find_attractions"
    /\ invoked[1].location = "Atlantis"
    /\ Len(returned) = 1
    /\ returned[1].raised = None
C26_WitnessFlights ==
    /\ app = "main"
    /\ invoked[1].name = "search_flights"
    /\ invoked[1].destination = "KHAMMAM"
    /\ Len(returned) = 1
    /\ returned[1].raised = None

\* C27: invoking find_attractions twice with identical arguments, for a known
\* location such as Tokyo as well as for an unknown one, yields identical
\* result strings.
C27_FindAttractionsRepeatable ==
    (invoked[1].name = "find_attractions" /\ Len(returned) = 2) =>
        /\ returned[1].raised = None
        /\ returned[1] = returned[2]
C27_Witness ==
    /\ app = "main"
    /\ invoked[1].name = "find_attractions"
    /\ invoked[1].location = "Tokyo"
    /\ Len(returned) = 2
    /\ Holds(returned[2].value, "Senso-ji Temple")
C27_WitnessUnknown ==
    /\ invoked[1].name = "find_attractions"
    /\ invoked[1].location = "tokyo"
    /\ Len(returned) = 2
    /\ Holds(returned[2].value, "not available")

\* C28: in incremental mode the step-started record of a step is emitted when
\* the loop enters the step, before the step's model call (agent step) or
\* tool invocations (tool step) are performed.
NodeStarts(name) ==
    Cardinality({ i \in 1..Len(stream) :
                    stream[i].type = "node_start" /\ stream[i].node = name })

C28_StepStartedOnEntry ==
    (stream_mode /\ app = "server") =>
        \* a model call of the current agent step is under way
        /\ rpc \in {"call", "sleep"} =>
              NodeStarts("agent") = StepCount("agent") + 1
        \* a step has run its model call or its tools
        /\ \A name \in {"agent", "tools"} :
              NodeStarts(name) >= StepCount(name)

\* C29: in a stream that ends with done, each tool call request of the run
\* yields exactly one tool-requested record with its name and arguments and
\* each tool result message exactly one tool-completed record, so that the
\* counts are equal and the i-th tool-completed record names the tool of the
\* i-th tool-requested record.
RECURSIVE AllToolCalls(_)
AllToolCalls(msgs) ==
    IF msgs = <<>> THEN <<>>
    ELSE Head(msgs).tool_calls \o AllToolCalls(Tail(msgs))

OfType(records, type) == SelectSeq(records, LAMBDA r : r.type = type)

ToolMessages(msgs) == SelectSeq(msgs, LAMBDA m : m.type = "tool")

C29_RequestsAndCompletionsPair ==
    EndsWithDone =>
        LET requested == OfType(stream, "tool_request")
            completed == OfType(stream, "tool_result")
            requests == AllToolCalls(messages)
            results == ToolMessages(messages)
        IN  /\ Len(requested) = Len(requests)
            /\ \A i \in 1..Len(requested) :
                  /\ {"tool", "args"} \subseteq requested[i].keys
                  /\ requested[i].tool = requests[i].name
                  /\ requested[i].args = requests[i].args
            /\ Len(completed) = Len(results)
            /\ \A i \in 1..Len(completed) : completed[i].tool = results[i].name
            /\ Len(requested) = Len(completed)
            /\ \A i \in 1..Len(completed) : completed[i].tool = requested[i].tool

\* C30: the preview of a tool-completed record is the prefix of the tool
\* result message's content of length min(200, length of the content): never
\* longer than 200 characters, and the whole content when that is shorter.
Previews ==
    { i \in 1..Len(stream) :
        stream[i].type = "tool_result" /\ "result" \in stream[i].keys }

PreviewedContent(i) == messages[stream[i].msg].content.text

C30_PreviewIsPrefix ==
    \A i \in Previews :
        LET n == Min(200, Len(PreviewedContent(i))) IN
        /\ Len(stream[i].content) = n
        /\ stream[i].content = SubSeq(PreviewedContent(i), 1, n)
C30_Witness ==
    \E i, j \in Previews :
        /\ Len(PreviewedContent(i)) > 200
        /\ Len(stream[i].content) = 200
        /\ Len(PreviewedContent(j)) < 200
        /\ stream[j].content = "Tool not found"


\* C31: the retry context is scoped to one Agent Step: every Agent Step
\* starts with attempt 0 and delay initial_delay, and its first backoff sleep
\* lasts initial_delay, whatever failures and backoff delays occurred in
\* earlier Agent Steps of the conversation.
C31_Step ==
    /\ (rpc \in {"idle", "returned"} /\ rpc' = "call") =>
          attempt' = 0 /\ delay' = initial_delay
    /\ (rpc' = "sleep" /\ Len(sleeps') = 1) => sleeps'[1] = initial_delay

C31_RetryContextPerStep == [][C31_Step]_vars
\* an Agent Step has started after an earlier one that failed and backed off
C31_Witness ==
    /\ Len(steps) = 2
    /\ rpc = "sleep"
    /\ attempt = 0
    /\ sleeps = <<initial_delay>>
    /\ Len(messages) >= 3
\* the state such a step starts from: the delay of the earlier step has grown
C31_WitnessEarlier ==
    /\ Len(steps) = 2
    /\ node = "agent"
    /\ rpc = "returned"
    /\ attempt = 2
    /\ delay > initial_delay


\* C32: inside the execution loop a Tool Step is only ever entered when the
\* last message of the history is an agent message with at least one tool
\* call request (the MalformedRoutingState precondition violation is
\* unreachable): whenever the tools node is next the history ends with such
\* a message, and whenever a Tool Step has just completed its results follow
\* such a message.
C32_ToolStepPrecondition ==
    /\ node = "tools" => IsAgentWithCalls(Last(messages))
    /\ (steps # <<>> /\ Last(steps) = "tools") =>
          \E j \in 1..Len(messages) :
              /\ IsAgentWithCalls(messages[j])
              /\ Len(messages) = j + Len(messages[j].tool_calls)
C32_Witness ==
    /\ steps = <<"agent", "tools", "agent", "tools">>
    /\ node = "agent"
    /\ Last(messages).type = "tool"
C32_WitnessEntering ==
    /\ steps = <<"agent", "tools", "agent">>
    /\ node = "tools"
    /\ raised = None


\* C33: for every retry configuration RetryConfig accepts (max_retries from
\* 0 to 10) the wrapper ends in one of two ways only: it returns the value
\* of a successful model call, or it raises a failure; it never returns
\* without a value and without having called the model.
C33_ReturnsValueOrRaises ==
    /\ rpc = "returned" =>
          /\ calls >= 1
          /\ result = Last(messages) /\ result.type = "ai"
          /\ raised = None
    /\ rpc = "raised" => raised \in Errors /\ calls >= 1

\* C34: no single backoff sleep of the wrapper lasts longer than max_delay,
\* for every retry configuration RetryConfig accepts, initial_delay greater
\* than max_delay included.
C34_SleepWithinCeiling ==
    \A i \in 1..Len(sleeps) : sleeps[i] <= max_delay


\* C35: in the incremental-mode stream of server.py the step numbers of the
\* step-started records start at 1 and increase by exactly 1 from one
\* step-started record to the next, and the nodes alternate: odd step
\* numbers name the agent node and even step numbers the tools node.
StepStarted == { i \in 1..Len(stream) : stream[i].type = "node_start" }

C35_StepNumbersAlternate ==
    (stream_mode /\ app = "server") =>
        \A i \in StepStarted :
            /\ stream[i].step =
                  Cardinality({ j \in 1..i : stream[j].type = "node_start" })
            /\ stream[i].node =
                  IF stream[i].step % 2 = 1 THEN "agent" ELSE "tools"
C35_Witness ==
    /\ stream_mode
    /\ app = "server"
    /\ Closed
    /\ Cardinality(StepStarted) = 5
    /\ \E i \in StepStarted : stream[i].step = 4 /\ stream[i].node = "tools"


\* C36: in buffered mode (main.py, whose answer carries used_tools)
\* used_tools is empty exactly when the run performed no Tool Step, and
\* otherwise it is exactly the set of tool names carried by the tool result
\* messages of the final history, so that a successful run that executed at
\* least one tool call reports at least one used tool.
ToolResultNames ==
    { messages[k].name : k \in { j \in 1..Len(messages) :
                                    messages[j].type = "tool" } }

C36_UsedToolsAreResultNames ==
    (~stream_mode /\ app = "main" /\ http # <<>> /\ http[1].kind = "answer")
    =>  LET used_tools == http[1].used_tools IN
        /\ http[1].has_used_tools
        /\ used_tools = <<>> <=> StepCount("tools") = 0
        /\ { used_tools[i] : i \in 1..Len(used_tools) } = ToolResultNames
        /\ StepCount("tools") >= 1 => Len(used_tools) >= 1
C36_Witness ==
    /\ ~stream_mode /\ app = "main"
    /\ http # <<>> /\ http[1].kind = "answer"
    /\ StepCount("tools") = 2
    /\ Len(http[1].used_tools) = 2
    /\ Cardinality(ToolResultNames) = 2
    /\ Len(messages) = 7
C36_WitnessNoTools ==
    /\ ~stream_mode /\ app = "main"
    /\ http # <<>> /\ http[1].kind = "answer"
    /\ steps = <<"agent">>
    /\ http[1].used_tools = <<>>


\* C37: for a tool call request that names a registered tool, the content of
\* the tool result message the manual Tool Step (server.py) appends is
\* exactly the string the tool returned; the text 'Tool not found' is the
\* content only when no registered tool has the requested name.
Returned(name) ==
    CASE name = "search_flights" -> search_flights
      [] name = "get_weather" -> get_weather
      [] name = "find_attractions" -> find_attractions

C37_ContentIsToolResult ==
    app = "server" =>
        \A k \in 1..Len(messages) :
            messages[k].type = "tool" =>
                LET m == messages[k] IN
                /\ m.name \in ToolNames => m.content = Str(Returned(m.name))
                /\ m.content = Str("Tool not found") => m.name \notin ToolNames
C37_Witness ==
    /\ app = "server"
    /\ Len(messages) >= 4
    /\ messages[3].type = "tool" /\ messages[3].name = "find_attractions"
    /\ messages[3].content = Str(find_attractions)
    /\ messages[4].type = "tool" /\ messages[4].name = "book_hotel"
    /\ messages[4].content = Str("Tool not found")

====
